---- MODULE Spec2Model ----
(***************************************************************************)
(* The resilient API client of ecm-mcp-server: ECMClient (rate limiting,   *)
(* auth refresh, retrying request loop, error classification, close) and   *)
(* the OAuth2 handler it drives.  Tasks are asyncio coroutines on one      *)
(* event loop: a task runs without interleaving from one suspension point  *)
(* (an awaited send, an awaited sleep, an awaited aclose) to the next.     *)
(***************************************************************************)
EXTENDS Integers, Sequences, FiniteSets, TLC

\* ---------------------------------------------------------------- bounds
\* number of clock advances explored
MaxTicks == 2
\* number of HTTP transports the client may create
MaxTransports == 2
\* consecutive close() calls counted
MaxCloses == 2

\* ------------------------------------------------------ program constants
\* ecm_client.py:87  "if current_time - t < 60"
WindowSeconds == 60
\* auth.py:59  "time.time() + expires_in - 300"
ExpiryBuffer == 300
\* auth.py:58  token.get("expires_in", 3600)
DefaultExpiresIn == 3600

\* Python's None (for a string), and a dict key that is not there
None == "None"
Absent == "Absent"
\* exceptions.py:6  "status_code: int = None": no status code
NoStatus == 0
\* ecm_client.py:58  "self._client = None": no transport
NoClient == 0

\* the coroutines that may use the one client
Tasks == {1, 2}
\* the coroutine that uses it when calls are made one after another
Callers == {1}

\* clock advances, in seconds
Steps == {30, 3270}

\* configurations the client is constructed with (utils/config.py ECMConfig)
RateLimits == {0, 1, 2}
RetryAttempts == {0, 1, 3}
RetryBackoffs == {2, 3}
AuthTypes == {"oauth2", "api_key", "basic"}

\* what the token endpoint may answer
Tokens == {"tokA", "tokB"}
\* an expires_in that is no number: a JSON string such as "3600", or null
NotANumber == <<-1>>
ExpiresIns == {<<>>, <<330>>, <<3600>>, NotANumber}
ExchangeResults ==
    {[ok |-> FALSE, access_token |-> Absent, expires_in |-> <<>>],
     [ok |-> TRUE, access_token |-> Absent, expires_in |-> <<>>]}
    \cup [ok : {TRUE}, access_token : Tokens, expires_in : ExpiresIns]

\* response bodies: the raw text and what response.json() makes of it
Body(text, parse, err, msg) ==
    [text |-> text, parse |-> parse, error |-> err, message |-> msg]
BodyDocMissing == Body("{\"message\": \"doc missing\"}", "object", Absent, "doc missing")
BodyInternal == Body("internal error", "invalid", Absent, Absent)
BodyBoth == Body("{\"error\": \"denied\", \"message\": \"other\"}", "object", "denied", "other")
BodyErrorOnly == Body("{\"error\": \"denied\"}", "object", "denied", Absent)
BodyEmptyObject == Body("{}", "object", Absent, Absent)
BodyArray == Body("[1]", "non_object", Absent, Absent)
BodyEmpty == Body("", "invalid", Absent, Absent)
Bodies ==
    {BodyDocMissing, BodyInternal, BodyBoth, BodyErrorOnly, BodyEmptyObject,
     BodyArray, BodyEmpty}
Statuses == {200, 204, 400, 401, 403, 404, 429, 500, 503}

\* what one awaited client.request() may end in
SendResults ==
    {[kind |-> "timeout", status |-> NoStatus, body |-> BodyEmpty],
     [kind |-> "http_error", status |-> NoStatus, body |-> BodyEmpty]}
    \cup [kind : {"response"}, status : {200, 404, 429, 500}, body : {BodyDocMissing}]

\* every response the classifier is tried on
Responses == [kind : {"response"}, status : Statuses, body : Bodies]

\* header dicts: a function from header names to values; {} is the empty one
NoHeaders == <<>>
\* utils/config.py:23-24  APIKeyConfig(header_name="X-API-Key", key=...)
ApiKeyHeaderName == "X-API-Key"
ApiKey == "key1"
\* utils/config.py:29-30  BasicAuthConfig(username, password)
BasicCredentials == [username |-> "user", password |-> "pw"]
\* the headers= a caller may pass to _request
CallerHeaders ==
    {NoHeaders,
     ("Accept" :> <<"text/plain">>),
     ("Accept" :> <<"text/plain">>) @@ ("Authorization" :> <<"caller">>),
     ("X-API-Key" :> <<"caller">>)}

VARIABLES
    config,            \* the ECMConfig the client was constructed from
    now,               \* time.time()
    ticks,             \* clock advances so far
    request_times,     \* ECMClient._request_times
    token,             \* OAuth2Handler._token
    token_expires_at,  \* OAuth2Handler._token_expires_at
    client,            \* ECMClient._client: None or a transport
    transports,        \* every transport created: "open" or "closed"
    running,           \* the task holding the event loop, 0 when it is free
    pc,                \* each task's position
    attempt,           \* _request's loop variable
    last_exception,    \* _request's last_exception
    client_ref,        \* _request's local variable client
    outcome,           \* what the task's call returned or raised
    tries,             \* history: the result of each send of the call
    sleeps,            \* history: the argument of each asyncio.sleep of the call
    prior,             \* history: admitted calls in the window when the call was checked
    exchanged,         \* history: the answer to each token exchange of the call
    admitted,          \* history: the time of every call admitted in the last 60 s
    fetch_time,        \* history: when the held token was fetched
    lifetime,          \* history: the lifetime the held token was fetched with
    closes,            \* history: close() calls completed since the last send
    transport_auth,    \* the auth= each transport was created with
    kwargs_headers,    \* _request's kwargs["headers"], {} when the caller passed none
    auth_headers,      \* _request's auth_headers
    headers,           \* _request's headers
    sent,              \* history: the headers and credentials of each send of the call
    granted,           \* history: the access_token of the last successful exchange
    method,            \* the convenience method the call came through
    returned,          \* what the convenience method returned or raised
    construction       \* ECMClient(config): its input and how it ended

vars ==
    <<config, now, ticks, request_times, token, token_expires_at, client,
      transports, running, pc, attempt, last_exception, client_ref, outcome,
      tries, sleeps, prior, exchanged, admitted, fetch_time, lifetime, closes,
      transport_auth, kwargs_headers, auth_headers, headers, sent, granted,
      method, returned, construction>>

auth == <<token, token_expires_at, fetch_time, lifetime, granted>>
shared == <<request_times, auth, client, transports, transport_auth, admitted>>
clock == <<now, ticks>>
wire == <<kwargs_headers, auth_headers, headers, sent>>
outer == <<method, returned, construction>>

\* ------------------------------------------------------------- exceptions
\* ECMClientError.__init__(message, status_code=None, response_body=None)
Error(kind, message, status_code, response_body) ==
    [kind |-> kind, message |-> message, status_code |-> status_code,
     response_body |-> response_body]

\* a call that returned: the response's status and text, or nothing
Returned(status_code, text) ==
    [kind |-> "return", message |-> <<>>, status_code |-> status_code,
     response_body |-> text]

\* no exception, no result yet
NoError == Error(None, <<>>, NoStatus, None)

\* ----------------------------------------------------------- rate limiter
\* "if current_time - t < 60"
InWindow_short(t, current_time) == current_time - t < 30
InWindow_inclusive(t, current_time) == current_time - t <= WindowSeconds
InWindow(t, current_time) == current_time - t < WindowSeconds

RECURSIVE MinOf(_)
MinOf(s) ==
    IF Len(s) = 1 THEN s[1]
    ELSE LET m == MinOf(Tail(s)) IN IF s[1] < m THEN s[1] ELSE m

\* s[-1]
LastOf(s) == s[Len(s)]

\* "if len(self._request_times) >= self.rate_limit"
LimitReached_offbyone(n, rate_limit) == n > rate_limit
LimitReached(n, rate_limit) == n >= rate_limit

\* _check_rate_limit: the new _request_times and what it raises
CheckRateLimit_countsrejected(times, current_time, rate_limit) ==
    LET kept == SelectSeq(times, LAMBDA t : InWindow(t, current_time))
    IN  IF LimitReached(Len(kept), rate_limit)
        THEN IF kept = <<>>
             THEN [times |-> kept,
                   raised |-> Error("ValueError", <<"min() arg is an empty sequence">>,
                                    NoStatus, None)]
             ELSE LET sleep_time == WindowSeconds - (current_time - MinOf(kept))
                  IN  IF sleep_time > 0
                      THEN [times |-> Append(kept, current_time),
                            raised |-> Error("ECMRateLimitError",
                                             <<"Rate limit of ", ToString(rate_limit),
                                               " requests/minute exceeded">>,
                                             NoStatus, None)]
                      ELSE [times |-> Append(kept, current_time), raised |-> NoError]
        ELSE [times |-> Append(kept, current_time), raised |-> NoError]
CheckRateLimit(times, current_time, rate_limit) ==
    LET kept == SelectSeq(times, LAMBDA t : InWindow(t, current_time))
    IN  IF LimitReached(Len(kept), rate_limit)
        THEN IF kept = <<>>
             THEN [times |-> kept,
                   raised |-> Error("ValueError", <<"min() arg is an empty sequence">>,
                                    NoStatus, None)]
             ELSE LET sleep_time == WindowSeconds - (current_time - MinOf(kept))
                  IN  IF sleep_time > 0
                      THEN [times |-> kept,
                            raised |-> Error("ECMRateLimitError",
                                             <<"Rate limit of ", ToString(rate_limit),
                                               " requests/minute exceeded">>,
                                             NoStatus, None)]
                      ELSE [times |-> Append(kept, current_time), raised |-> NoError]
        ELSE [times |-> Append(kept, current_time), raised |-> NoError]

CountInWindow(log, current_time) ==
    Cardinality({i \in 1..Len(log) : current_time - log[i] < WindowSeconds})

\* ------------------------------------------------------------------ auth
\* _is_token_expired
IsTokenExpired_strict(current_time, expires_at) == current_time > expires_at
IsTokenExpired(current_time, expires_at) == current_time >= expires_at

\* refresh_if_needed's condition
NeedsRefresh(tok, expires_at, current_time) ==
    tok = None \/ IsTokenExpired(current_time, expires_at)

\* token.get("expires_in", 3600)
ExpiresIn(r) == IF r.expires_in = <<>> THEN DefaultExpiresIn ELSE r.expires_in[1]

\* "time.time() + expires_in - 300"
ExpiresAt(current_time, expires_in) == current_time + expires_in - ExpiryBuffer

\* _fetch_token raises when fetch_token raises or the answer has no access_token
FetchFails_unchecked(r) == ~r.ok
FetchFails(r) == ~r.ok \/ r.access_token = Absent

\* get_headers raises ECMAuthenticationError: OAuth2Handler without a token
GetHeadersRaises(auth_type, tok) == auth_type = "oauth2" /\ tok = None

\* get_headers of OAuth2Handler, APIKeyHandler and BasicAuthHandler
GetHeaders_bearerkey(auth_type, tok) ==
    IF auth_type = "oauth2" THEN ("Authorization" :> <<"Bearer ", tok>>)
    ELSE IF auth_type = "api_key" THEN ("Authorization" :> <<"Bearer ", ApiKey>>)
    ELSE NoHeaders
GetHeaders(auth_type, tok) ==
    IF auth_type = "oauth2" THEN ("Authorization" :> <<"Bearer ", tok>>)
    ELSE IF auth_type = "api_key" THEN (ApiKeyHeaderName :> <<ApiKey>>)
    ELSE NoHeaders

\* httpx's auth=None: no authenticator
NoAuth == [username |-> None, password |-> None]

\* BasicAuthHandler.get_auth(): httpx.BasicAuth(username, password)
GetAuth == BasicCredentials

\* the auth= that _get_client passes to httpx.AsyncClient: none, whatever the
\* handler; get_auth() is called nowhere
TransportAuth(auth_type) == NoAuth

\* "headers.update(auth_headers)"
Update_keepcaller(d, other) == d @@ other
Update(d, other) == other @@ d

\* "time.time() + expires_in - 300" raises TypeError, after "self._token = ..."
StoreFails(r) == r.expires_in = NotANumber

\* ------------------------------------------------------- error classifier
\* error_body.get("error", error_body.get("message", response.text)), or
\* response.text when json() or .get raises
ErrorMessage_messagefirst(body) ==
    IF body.parse = "object"
    THEN IF body.message # Absent THEN body.message
         ELSE IF body.error # Absent THEN body.error
         ELSE body.text
    ELSE body.text
ErrorMessage(body) ==
    IF body.parse = "object"
    THEN IF body.error # Absent THEN body.error
         ELSE IF body.message # Absent THEN body.message
         ELSE body.text
    ELSE body.text

\* the exception class each branch of _handle_error_response raises
StatusKind_no429(status_code) ==
    IF status_code = 401 THEN "ECMAuthenticationError"
    ELSE IF status_code = 403 THEN "ECMPermissionError"
    ELSE IF status_code = 404 THEN "ECMNotFoundError"
    ELSE "ECMClientError"
StatusKind(status_code) ==
    IF status_code = 401 THEN "ECMAuthenticationError"
    ELSE IF status_code = 403 THEN "ECMPermissionError"
    ELSE IF status_code = 404 THEN "ECMNotFoundError"
    ELSE IF status_code = 429 THEN "ECMRateLimitError"
    ELSE "ECMClientError"

\* the f-string each branch puts before the extracted message
StatusPrefix(status_code) ==
    IF status_code = 401 THEN <<"Authentication failed: ">>
    ELSE IF status_code = 403 THEN <<"Permission denied: ">>
    ELSE IF status_code = 404 THEN <<"Resource not found: ">>
    ELSE IF status_code = 429 THEN <<"Rate limit exceeded: ">>
    ELSE <<"API error (", ToString(status_code), "): ">>

\* _handle_error_response
HandleErrorResponse(status_code, body) ==
    Error(StatusKind(status_code),
          StatusPrefix(status_code) \o <<ErrorMessage(body)>>,
          status_code, body.text)

\* ------------------------------------------------------------ retry loop
RECURSIVE Pow(_, _)
Pow(b, e) == IF e = 0 THEN 1 ELSE b * Pow(b, e - 1)

\* "wait_time = self.retry_backoff ** attempt"
WaitTime_linear(retry_backoff, a) == retry_backoff * a
WaitTime(retry_backoff, a) == Pow(retry_backoff, a)

\* "if attempt < self.retry_attempts - 1"
RetriesLeft_always(a, retry_attempts) == a < retry_attempts
RetriesLeft(a, retry_attempts) == a < retry_attempts - 1

\* "if response.status_code >= 400"
IsErrorStatus_5xx(status_code) == status_code >= 500
IsErrorStatus(status_code) == status_code >= 400

\* the exception a failed send leaves in last_exception
RetryableError_status(r) ==
    IF r.kind = "timeout"
    THEN Error("ECMTimeoutError", <<"Request timeout: ", "timeout">>, NoStatus, None)
    ELSE Error("ECMClientError", <<"HTTP error: ", "transport">>, 503, None)
RetryableError(r) ==
    IF r.kind = "timeout"
    THEN Error("ECMTimeoutError", <<"Request timeout: ", "timeout">>, NoStatus, None)
    ELSE Error("ECMClientError", <<"HTTP error: ", "transport">>, NoStatus, None)

\* "last_exception = ECMTimeoutError(...)" / "last_exception = ECMClientError(...)"
RecordFailure_keepfirst(previous, r) ==
    IF previous # NoError THEN previous ELSE RetryableError(r)
RecordFailure(previous, r) == RetryableError(r)

\* "if last_exception: raise last_exception" else the generic error
Exhausted_timeout(last) ==
    IF last # NoError THEN last
    ELSE Error("ECMTimeoutError", <<"Request timeout: ", "timeout">>, NoStatus, None)
Exhausted(last) ==
    IF last # NoError THEN last
    ELSE Error("ECMClientError", <<"Request failed after all retries">>, NoStatus, None)

\* ----------------------------------------------------------------- close
\* "if self._client:"
HoldsClient(cl) == cl # NoClient

\* "self._client = None"
ClientAfterClose_kept(cl) == cl
ClientAfterClose(cl) == NoClient

\* ------------------------------------------------- convenience methods
\* get, post, put, patch, delete: the method each passes to _request
Methods == {"GET", "POST", "PUT", "PATCH", "DELETE"}

\* a JSON value as far as it is looked at: its type and its top-level fields
JsonValue(type, err, msg, status) ==
    [json |-> type, error |-> err, message |-> msg, status |-> status]
NoValue == JsonValue(None, Absent, Absent, Absent)

\* nothing returned or raised yet
NoResult == [kind |-> None, value |-> NoValue]

\* response.json(): the parsed body, or JSONDecodeError
ResponseJson(body) ==
    IF body.parse = "invalid"
    THEN [kind |-> "JSONDecodeError", value |-> NoValue]
    ELSE [kind |-> "return",
          value |-> JsonValue(body.parse, body.error, body.message, Absent)]

\* {"status": "deleted"}
Deleted == JsonValue("object", Absent, Absent, "deleted")

\* "if response.status_code == 204" in delete
IsNoContent_any2xx(m, status_code) == m = "DELETE" /\ status_code < 300
IsNoContent(m, status_code) == m = "DELETE" /\ status_code = 204

\* what get/post/put/patch/delete make of what _request returned or raised
Convenience(m, ended, body) ==
    IF ended.kind # "return" THEN [kind |-> ended.kind, value |-> NoValue]
    ELSE IF IsNoContent(m, ended.status_code)
         THEN [kind |-> "return", value |-> Deleted]
         ELSE ResponseJson(body)

\* ----------------------------------------------------------- construction
\* the auth_type strings a configuration may hold, and the optional blocks
\* (oauth, api_key, basic) it may have
AuthTypeInputs == {"oauth2", "api_key", "basic", "OAuth2", "BASIC", "ldap", ""}
Blocks == {"oauth", "api_key", "basic"}

\* str.lower()
Lower_asis(str) == str
Lower(str) ==
    IF str = "OAuth2" THEN "oauth2"
    ELSE IF str = "BASIC" THEN "basic"
    ELSE str

\* create_auth_handler: the handler it returns or the ValueError it raises
CreateAuthHandler(type, blocks) ==
    LET auth_type == Lower(type)
    IN  IF auth_type = "oauth2"
        THEN IF "oauth" \notin blocks
             THEN [raised |-> Error("ValueError",
                                    <<"OAuth configuration is required for oauth2 auth type">>,
                                    NoStatus, None),
                   handler |-> None]
             ELSE [raised |-> NoError, handler |-> "OAuth2Handler"]
        ELSE IF auth_type = "api_key"
        THEN IF "api_key" \notin blocks
             THEN [raised |-> Error("ValueError",
                                    <<"API key configuration is required for api_key auth type">>,
                                    NoStatus, None),
                   handler |-> None]
             ELSE [raised |-> NoError, handler |-> "APIKeyHandler"]
        ELSE IF auth_type = "basic"
        THEN IF "basic" \notin blocks
             THEN [raised |-> Error("ValueError",
                                    <<"Basic auth configuration is required for basic auth type">>,
                                    NoStatus, None),
                   handler |-> None]
             ELSE [raised |-> NoError, handler |-> "BasicAuthHandler"]
        ELSE [raised |-> Error("ValueError",
                               <<"Invalid auth type: ", auth_type,
                                 ". Supported types: oauth2, api_key, basic">>,
                               NoStatus, None),
              handler |-> None]

\* ECMClient(config) before __init__ has run
Unbuilt(type, blocks) ==
    [auth_type |-> type, blocks |-> blocks, built |-> FALSE, raised |-> NoError,
     handler |-> None]

\* no construction is looked at: the client exists
NoConstruction == Unbuilt(None, {})

\* ---------------------------------------------------------------- state
\* a new client's fields, the clock at 0 and no call made
Blank ==
    /\ now = 0
    /\ ticks = 0
    /\ request_times = <<>>
    /\ token = None
    /\ token_expires_at = 0
    /\ client = NoClient
    /\ transports = <<>>
    /\ running = 0
    /\ pc = [c \in Tasks |-> "idle"]
    /\ attempt = [c \in Tasks |-> 0]
    /\ last_exception = [c \in Tasks |-> NoError]
    /\ client_ref = [c \in Tasks |-> NoClient]
    /\ outcome = [c \in Tasks |-> NoError]
    /\ tries = [c \in Tasks |-> <<>>]
    /\ sleeps = [c \in Tasks |-> <<>>]
    /\ prior = [c \in Tasks |-> 0]
    /\ exchanged = [c \in Tasks |-> <<>>]
    /\ admitted = <<>>
    /\ fetch_time = 0
    /\ lifetime = 0
    /\ closes = 0
    /\ transport_auth = <<>>
    /\ kwargs_headers = [c \in Tasks |-> NoHeaders]
    /\ auth_headers = [c \in Tasks |-> NoHeaders]
    /\ headers = [c \in Tasks |-> NoHeaders]
    /\ sent = [c \in Tasks |-> <<>>]
    /\ granted = None
    /\ method = [c \in Tasks |-> None]
    /\ returned = [c \in Tasks |-> NoResult]

Init ==
    /\ config \in [rate_limit : RateLimits, retry_attempts : RetryAttempts,
                   retry_backoff : RetryBackoffs, auth_type : AuthTypes]
    /\ construction = NoConstruction
    /\ Blank

\* the call ends: the task leaves the event loop with its result
Finish(c, result) ==
    /\ pc' = [pc EXCEPT ![c] = "done"]
    /\ outcome' = [outcome EXCEPT ![c] = result]
    /\ running' = 0

\* a caller starts _request; its locals are fresh
StartRequest(c, h) ==
    /\ running = 0
    /\ pc[c] \in {"idle", "done", "closed"}
    /\ running' = c
    /\ pc' = [pc EXCEPT ![c] = "rate_check"]
    /\ attempt' = [attempt EXCEPT ![c] = 0]
    /\ last_exception' = [last_exception EXCEPT ![c] = NoError]
    /\ client_ref' = [client_ref EXCEPT ![c] = NoClient]
    /\ outcome' = [outcome EXCEPT ![c] = NoError]
    /\ tries' = [tries EXCEPT ![c] = <<>>]
    /\ sleeps' = [sleeps EXCEPT ![c] = <<>>]
    /\ prior' = [prior EXCEPT ![c] = 0]
    /\ exchanged' = [exchanged EXCEPT ![c] = <<>>]
    /\ kwargs_headers' = [kwargs_headers EXCEPT ![c] = h]
    /\ auth_headers' = [auth_headers EXCEPT ![c] = NoHeaders]
    /\ headers' = [headers EXCEPT ![c] = NoHeaders]
    /\ sent' = [sent EXCEPT ![c] = <<>>]
    /\ UNCHANGED <<config, clock, shared, closes, outer>>

\* "await self._check_rate_limit()"
RateCheck(c) ==
    /\ running = c
    /\ pc[c] = "rate_check"
    /\ LET r == CheckRateLimit(request_times, now, config.rate_limit)
       IN  /\ request_times' = r.times
           /\ prior' = [prior EXCEPT ![c] = CountInWindow(admitted, now)]
           /\ IF r.raised = NoError
              THEN /\ admitted' = Append(admitted, now)
                   /\ pc' = [pc EXCEPT ![c] = "auth_refresh"]
                   /\ UNCHANGED <<outcome, running, closes>>
              ELSE /\ Finish(c, r.raised)
                   /\ UNCHANGED <<admitted, closes>>
    /\ UNCHANGED <<config, clock, auth, client, transports, transport_auth,
                   attempt, last_exception, client_ref, tries, sleeps, exchanged,
                   wire, outer>>

\* "await self.auth_handler.refresh_if_needed()": OAuth2Handler starts a token
\* fetch when it holds no token or the token is expired; the other handlers
\* inherit the no-op
AuthRefresh(c) ==
    /\ running = c
    /\ pc[c] = "auth_refresh"
    /\ IF config.auth_type = "oauth2" /\ NeedsRefresh(token, token_expires_at, now)
       THEN pc' = [pc EXCEPT ![c] = "fetching"]
       ELSE pc' = [pc EXCEPT ![c] = "prepare"]
    /\ UNCHANGED <<config, clock, shared, running, attempt, last_exception,
                   client_ref, outcome, tries, sleeps, prior, exchanged, closes,
                   wire, outer>>

\* _fetch_token: client.fetch_token() blocks the event loop until the token
\* endpoint has answered; the token and its expiry are stored, or
\* ECMAuthenticationError is raised, before the token is stored when the fetch
\* raised or the answer has no access_token, after it when expires_in is no
\* number
FetchToken(c, r) ==
    /\ running = c
    /\ pc[c] = "fetching"
    /\ exchanged' = [exchanged EXCEPT ![c] = Append(@, r)]
    /\ IF FetchFails(r)
       THEN /\ Finish(c, Error("ECMAuthenticationError",
                               <<"OAuth authentication failed: ", "cause">>,
                               NoStatus, None))
            /\ UNCHANGED auth
       ELSE IF StoreFails(r)
       THEN /\ token' = r.access_token
            /\ Finish(c, Error("ECMAuthenticationError",
                               <<"OAuth authentication failed: ", "cause">>,
                               NoStatus, None))
            /\ UNCHANGED <<token_expires_at, fetch_time, lifetime, granted>>
       ELSE /\ token' = r.access_token
            /\ token_expires_at' = ExpiresAt(now, ExpiresIn(r))
            /\ fetch_time' = now
            /\ lifetime' = ExpiresIn(r)
            /\ granted' = r.access_token
            /\ pc' = [pc EXCEPT ![c] = "prepare"]
            /\ UNCHANGED <<outcome, running>>
    /\ UNCHANGED <<config, clock, request_times, client, transports, transport_auth,
                   attempt, last_exception, client_ref, tries, sleeps, prior, admitted,
                   closes, wire, outer>>

\* get_headers(), the header merge and "client = await self._get_client()"
Prepare(c) ==
    /\ running = c
    /\ pc[c] = "prepare"
    /\ IF GetHeadersRaises(config.auth_type, token)
       THEN /\ Finish(c, Error("ECMAuthenticationError",
                               <<"No OAuth token available. Call refresh_if_needed() first.">>,
                               NoStatus, None))
            /\ UNCHANGED <<client, transports, transport_auth, client_ref, closes,
                           auth_headers, headers>>
       ELSE /\ auth_headers' = [auth_headers EXCEPT
                                  ![c] = GetHeaders(config.auth_type, token)]
            /\ headers' = [headers EXCEPT
                             ![c] = Update(kwargs_headers[c], auth_headers'[c])]
            /\ IF client = NoClient
               THEN /\ Len(transports) < MaxTransports
                    /\ transports' = Append(transports, "open")
                    /\ transport_auth' =
                         Append(transport_auth, TransportAuth(config.auth_type))
                    /\ client' = Len(transports) + 1
               ELSE UNCHANGED <<client, transports, transport_auth>>
            /\ client_ref' = [client_ref EXCEPT ![c] = client']
            /\ pc' = [pc EXCEPT ![c] = "loop"]
            /\ UNCHANGED <<outcome, running, closes>>
    /\ UNCHANGED <<config, clock, request_times, auth, attempt,
                   last_exception, tries, sleeps, prior, exchanged, admitted,
                   kwargs_headers, sent, outer>>

\* "for attempt in range(self.retry_attempts)": the next send, or the raise
\* after the loop
Loop(c) ==
    /\ running = c
    /\ pc[c] = "loop"
    /\ IF attempt[c] < config.retry_attempts
       THEN IF transports[client_ref[c]] = "closed"
            THEN /\ Finish(c, Error("RuntimeError",
                                    <<"Cannot send a request, as the client has been closed.">>,
                                    NoStatus, None))
                 /\ UNCHANGED sent
            ELSE /\ pc' = [pc EXCEPT ![c] = "sending"]
                 /\ running' = 0
                 /\ sent' = [sent EXCEPT
                               ![c] = Append(@, [headers |-> headers[c],
                                                 auth |-> transport_auth[client_ref[c]]])]
                 /\ UNCHANGED outcome
       ELSE /\ Finish(c, Exhausted(last_exception[c]))
            /\ UNCHANGED sent
    /\ closes' = 0
    /\ UNCHANGED <<config, clock, shared, attempt, last_exception, client_ref,
                   tries, sleeps, prior, exchanged, kwargs_headers, auth_headers,
                   headers, outer>>

\* the awaited client.request() ends: the response is returned or classified,
\* a timeout or transport failure is recorded and slept on
Receive(c, r) ==
    /\ running = 0
    /\ pc[c] = "sending"
    /\ tries' = [tries EXCEPT ![c] = Append(@, r)]
    /\ IF r.kind = "response"
       THEN /\ IF IsErrorStatus(r.status)
               THEN Finish(c, HandleErrorResponse(r.status, r.body))
               ELSE Finish(c, Returned(r.status, r.body.text))
            /\ UNCHANGED <<last_exception, sleeps, attempt>>
       ELSE /\ last_exception' = [last_exception EXCEPT ![c] = RecordFailure(@, r)]
            /\ IF RetriesLeft(attempt[c], config.retry_attempts)
               THEN /\ sleeps' = [sleeps EXCEPT
                                    ![c] = Append(@, WaitTime(config.retry_backoff, attempt[c]))]
                    /\ pc' = [pc EXCEPT ![c] = "sleeping"]
                    /\ UNCHANGED <<attempt, running>>
               ELSE /\ attempt' = [attempt EXCEPT ![c] = @ + 1]
                    /\ pc' = [pc EXCEPT ![c] = "loop"]
                    /\ running' = c
                    /\ UNCHANGED sleeps
            /\ UNCHANGED outcome
    /\ UNCHANGED <<config, clock, shared, client_ref, prior, exchanged, closes,
                   wire, outer>>

\* the awaited asyncio.sleep() ends: "continue"
Wake(c) ==
    /\ running = 0
    /\ pc[c] = "sleeping"
    /\ attempt' = [attempt EXCEPT ![c] = @ + 1]
    /\ pc' = [pc EXCEPT ![c] = "loop"]
    /\ running' = c
    /\ UNCHANGED <<config, clock, shared, last_exception, client_ref, outcome,
                   tries, sleeps, prior, exchanged, closes, wire, outer>>

\* close(): "if self._client: await self._client.aclose()"
StartClose(c) ==
    /\ running = 0
    /\ pc[c] \in {"idle", "done", "closed"}
    /\ attempt' = [attempt EXCEPT ![c] = 0]
    /\ last_exception' = [last_exception EXCEPT ![c] = NoError]
    /\ client_ref' = [client_ref EXCEPT ![c] = NoClient]
    /\ tries' = [tries EXCEPT ![c] = <<>>]
    /\ sleeps' = [sleeps EXCEPT ![c] = <<>>]
    /\ prior' = [prior EXCEPT ![c] = 0]
    /\ exchanged' = [exchanged EXCEPT ![c] = <<>>]
    /\ kwargs_headers' = [kwargs_headers EXCEPT ![c] = NoHeaders]
    /\ auth_headers' = [auth_headers EXCEPT ![c] = NoHeaders]
    /\ headers' = [headers EXCEPT ![c] = NoHeaders]
    /\ sent' = [sent EXCEPT ![c] = <<>>]
    /\ IF HoldsClient(client)
       THEN /\ transports' = [transports EXCEPT ![client] = "closed"]
            /\ pc' = [pc EXCEPT ![c] = "aclosing"]
            /\ outcome' = [outcome EXCEPT ![c] = NoError]
            /\ UNCHANGED closes
       ELSE /\ pc' = [pc EXCEPT ![c] = "closed"]
            /\ outcome' = [outcome EXCEPT ![c] = Returned(NoStatus, None)]
            /\ closes' = IF closes < MaxCloses THEN closes + 1 ELSE closes
            /\ UNCHANGED transports
    /\ UNCHANGED <<config, clock, request_times, auth, client, transport_auth,
                   running, admitted, outer>>

\* the awaited aclose() ends: "self._client = None"
FinishClose(c) ==
    /\ running = 0
    /\ pc[c] = "aclosing"
    /\ client' = ClientAfterClose(client)
    /\ pc' = [pc EXCEPT ![c] = "closed"]
    /\ outcome' = [outcome EXCEPT ![c] = Returned(NoStatus, None)]
    /\ closes' = IF closes < MaxCloses THEN closes + 1 ELSE closes
    /\ UNCHANGED <<config, clock, request_times, auth,
                   transports, transport_auth, running, admitted, attempt,
                   last_exception, client_ref, tries, sleeps, prior, exchanged,
                   wire, outer>>

\* time passes
Tick(d) ==
    /\ ticks < MaxTicks
    /\ now' = now + d
    /\ ticks' = ticks + 1
    /\ admitted' = SelectSeq(admitted, LAMBDA t : now' - t < WindowSeconds)
    /\ UNCHANGED <<config, request_times, auth, client, closes,
                   transports, transport_auth, running, pc, attempt, last_exception,
                   client_ref, outcome, tries, sleeps, prior, exchanged,
                   wire, outer>>

\* calls made one after another by one caller, with time passing
Next ==
    \/ \E c \in Callers : StartRequest(c, NoHeaders)
    \/ \E c \in Callers : RateCheck(c)
    \/ \E c \in Callers : AuthRefresh(c)
    \/ \E c \in Callers, r \in ExchangeResults : FetchToken(c, r)
    \/ \E c \in Callers : Prepare(c)
    \/ \E c \in Callers : Loop(c)
    \/ \E c \in Callers, r \in SendResults : Receive(c, r)
    \/ \E c \in Callers : Wake(c)
    \/ \E c \in Callers : StartClose(c)
    \/ \E c \in Callers : FinishClose(c)
    \/ \E d \in Steps : Tick(d)

Spec == Init /\ [][Next]_vars

\* ------------------------------------------------- the classifier alone
\* a call that was admitted, needed no token and awaits its first send
Sending(m) ==
    /\ config \in [rate_limit : RateLimits \ {0}, retry_attempts : RetryAttempts \ {0},
                   retry_backoff : RetryBackoffs, auth_type : AuthTypes \ {"oauth2"}]
    /\ now = 0
    /\ ticks = 0
    /\ request_times = <<0>>
    /\ token = None
    /\ token_expires_at = 0
    /\ client = 1
    /\ transports = <<"open">>
    /\ running = 0
    /\ pc = [c \in Tasks |-> IF c \in Callers THEN "sending" ELSE "idle"]
    /\ attempt = [c \in Tasks |-> 0]
    /\ last_exception = [c \in Tasks |-> NoError]
    /\ client_ref = [c \in Tasks |-> IF c \in Callers THEN 1 ELSE NoClient]
    /\ outcome = [c \in Tasks |-> NoError]
    /\ tries = [c \in Tasks |-> <<>>]
    /\ sleeps = [c \in Tasks |-> <<>>]
    /\ prior = [c \in Tasks |-> 0]
    /\ exchanged = [c \in Tasks |-> <<>>]
    /\ admitted = <<0>>
    /\ fetch_time = 0
    /\ lifetime = 0
    /\ closes = 0
    /\ transport_auth = <<TransportAuth(config.auth_type)>>
    /\ kwargs_headers = [c \in Tasks |-> NoHeaders]
    /\ auth_headers =
         [c \in Tasks |-> IF c \in Callers THEN GetHeaders(config.auth_type, token)
                          ELSE NoHeaders]
    /\ headers = auth_headers
    /\ sent = [c \in Tasks |->
                 IF c \in Callers
                 THEN <<[headers |-> headers[c], auth |-> transport_auth[1]]>>
                 ELSE <<>>]
    /\ granted = None
    /\ method = [c \in Tasks |-> IF c \in Callers THEN m ELSE None]
    /\ returned = [c \in Tasks |-> NoResult]
    /\ construction = NoConstruction

\* _request called directly
InitSending == Sending(None)

\* the send ends in any response
NextClassify == \E c \in Callers, r \in Responses : Receive(c, r)

SpecClassify == InitSending /\ [][NextClassify]_vars

\* ------------------------------------------- the convenience methods alone
\* a call that came through get, post, put, patch or delete awaits its send
InitVerbs == \E m \in Methods : Sending(m)

\* _request has returned or raised: "return response.json()", or delete's
\* {"status": "deleted"}
Deliver(c) ==
    /\ running = 0
    /\ pc[c] = "done"
    /\ method[c] # None
    /\ pc' = [pc EXCEPT ![c] = "returned"]
    /\ returned' = [returned EXCEPT
                      ![c] = Convenience(method[c], outcome[c], LastOf(tries[c]).body)]
    /\ UNCHANGED <<config, clock, shared, running, attempt, last_exception,
                   client_ref, outcome, tries, sleeps, prior, exchanged, closes,
                   wire, method, construction>>

NextVerbs ==
    \/ \E c \in Callers, r \in Responses : Receive(c, r)
    \/ \E c \in Callers : Deliver(c)

SpecVerbs == InitVerbs /\ [][NextVerbs]_vars

\* ------------------------------------------------------ construction alone
\* ECMClient(config) is about to run on a configuration with any auth_type
\* string and any of the three blocks
InitConstruct ==
    /\ \E type \in AuthTypeInputs, blocks \in SUBSET Blocks :
           /\ construction = Unbuilt(type, blocks)
           /\ config = [rate_limit |-> 2, retry_attempts |-> 3, retry_backoff |-> 2,
                        auth_type |-> type]
    /\ Blank

\* ECMClient.__init__: "self.auth_handler = create_auth_handler(config)"
Construct ==
    /\ ~construction.built
    /\ construction.auth_type # None
    /\ LET r == CreateAuthHandler(construction.auth_type, construction.blocks)
       IN  construction' = [construction EXCEPT !.built = TRUE, !.raised = r.raised,
                                                !.handler = r.handler]
    /\ UNCHANGED <<config, clock, shared, running, pc, attempt, last_exception,
                   client_ref, outcome, tries, sleeps, prior, exchanged, closes,
                   wire, method, returned>>

NextConstruct == Construct

SpecConstruct == InitConstruct /\ [][NextConstruct]_vars

\* ------------------------------------------------ the auth handler alone
\* a client whose auth handler is called directly, with the default limits
InitAuth ==
    /\ Init
    /\ config.rate_limit = 2
    /\ config.retry_attempts = 3
    /\ config.retry_backoff = 2

\* where a task stands between direct calls of the handler
Between == {"idle", "refreshed", "got_headers"}

\* a direct "await auth_handler.refresh_if_needed()": it runs to its end
\* without leaving the event loop
CallRefreshIfNeeded(c, r) ==
    /\ running = 0
    /\ pc[c] \in Between
    /\ pc' = [pc EXCEPT ![c] = "refreshed"]
    /\ IF config.auth_type = "oauth2" /\ NeedsRefresh(token, token_expires_at, now)
       THEN /\ exchanged' = [exchanged EXCEPT ![c] = <<r>>]
            /\ IF FetchFails(r)
               THEN /\ outcome' = [outcome EXCEPT
                                     ![c] = Error("ECMAuthenticationError",
                                                  <<"OAuth authentication failed: ", "cause">>,
                                                  NoStatus, None)]
                    /\ UNCHANGED auth
               ELSE IF StoreFails(r)
               THEN /\ token' = r.access_token
                    /\ outcome' = [outcome EXCEPT
                                     ![c] = Error("ECMAuthenticationError",
                                                  <<"OAuth authentication failed: ", "cause">>,
                                                  NoStatus, None)]
                    /\ UNCHANGED <<token_expires_at, fetch_time, lifetime, granted>>
               ELSE /\ token' = r.access_token
                    /\ token_expires_at' = ExpiresAt(now, ExpiresIn(r))
                    /\ fetch_time' = now
                    /\ lifetime' = ExpiresIn(r)
                    /\ granted' = r.access_token
                    /\ outcome' = [outcome EXCEPT ![c] = Returned(NoStatus, None)]
       ELSE /\ exchanged' = [exchanged EXCEPT ![c] = <<>>]
            /\ outcome' = [outcome EXCEPT ![c] = Returned(NoStatus, None)]
            /\ UNCHANGED auth
    /\ UNCHANGED <<config, clock, request_times, client, transports, transport_auth,
                   admitted, running, attempt, last_exception, client_ref, tries,
                   sleeps, prior, closes, wire, outer>>

\* a direct "auth_handler.get_headers()"
CallGetHeaders(c) ==
    /\ running = 0
    /\ pc[c] \in Between
    /\ pc' = [pc EXCEPT ![c] = "got_headers"]
    /\ IF GetHeadersRaises(config.auth_type, token)
       THEN /\ outcome' = [outcome EXCEPT
                             ![c] = Error("ECMAuthenticationError",
                                          <<"No OAuth token available. Call refresh_if_needed() first.">>,
                                          NoStatus, None)]
            /\ auth_headers' = [auth_headers EXCEPT ![c] = NoHeaders]
       ELSE /\ outcome' = [outcome EXCEPT ![c] = Returned(NoStatus, None)]
            /\ auth_headers' = [auth_headers EXCEPT
                                  ![c] = GetHeaders(config.auth_type, token)]
    /\ UNCHANGED <<config, clock, shared, running, attempt, last_exception,
                   client_ref, tries, sleeps, prior, exchanged, closes,
                   kwargs_headers, headers, sent, outer>>

\* the handler's two methods called in any order, with time passing
NextAuth ==
    \/ \E c \in Callers, r \in ExchangeResults : CallRefreshIfNeeded(c, r)
    \/ \E c \in Callers : CallGetHeaders(c)
    \/ \E d \in Steps : Tick(d)

SpecAuth == InitAuth /\ [][NextAuth]_vars

\* ------------------------------------------- calls that pass their headers
\* calls made one after another within one window, each with headers of the
\* caller's choice
NextHeaders ==
    \/ \E c \in Callers, h \in CallerHeaders : StartRequest(c, h)
    \/ \E c \in Callers : RateCheck(c)
    \/ \E c \in Callers : AuthRefresh(c)
    \/ \E c \in Callers, r \in ExchangeResults : FetchToken(c, r)
    \/ \E c \in Callers : Prepare(c)
    \/ \E c \in Callers : Loop(c)
    \/ \E c \in Callers, r \in SendResults : Receive(c, r)
    \/ \E c \in Callers : Wake(c)

SpecHeaders == InitAuth /\ [][NextHeaders]_vars

\* ------------------------------------------------------ concurrent calls
\* what a send may end in when two tasks call at once
ConcurrentSendResults ==
    {[kind |-> "timeout", status |-> NoStatus, body |-> BodyEmpty],
     [kind |-> "response", status |-> 200, body |-> BodyDocMissing]}

\* what the token endpoint may answer then: a failure, tokens that live 30 s
\* beyond the safety margin, and a token whose expires_in is no number
ConcurrentExchangeResults ==
    {[ok |-> FALSE, access_token |-> Absent, expires_in |-> <<>>],
     [ok |-> TRUE, access_token |-> "tokA", expires_in |-> <<330>>],
     [ok |-> TRUE, access_token |-> "tokB", expires_in |-> <<330>>],
     [ok |-> TRUE, access_token |-> "tokB", expires_in |-> NotANumber]}

\* an OAuth2 client with the default retries
InitConcurrent ==
    /\ Init
    /\ config.auth_type = "oauth2"
    /\ config.rate_limit \in {1, 2}
    /\ config.retry_attempts = 3
    /\ config.retry_backoff = 2

\* two tasks call _request on the one client; a task gives up the event loop
\* only at its awaited send and its awaited sleep
NextConcurrent ==
    \/ \E c \in Tasks : StartRequest(c, NoHeaders)
    \/ \E c \in Tasks : RateCheck(c)
    \/ \E c \in Tasks : AuthRefresh(c)
    \/ \E c \in Tasks, r \in ConcurrentExchangeResults : FetchToken(c, r)
    \/ \E c \in Tasks : Prepare(c)
    \/ \E c \in Tasks : Loop(c)
    \/ \E c \in Tasks, r \in ConcurrentSendResults : Receive(c, r)
    \/ \E c \in Tasks : Wake(c)
    \/ Tick(30)

SpecConcurrent == InitConcurrent /\ [][NextConcurrent]_vars

\* ================================================================ claims
\* the call of task c has been through _check_rate_limit
Checked(c) ==
    pc[c] \in {"auth_refresh", "fetching", "prepare", "loop", "sending", "sleeping",
              "done"}

\* the client-side rate-limit rejection: ECMRateLimitError without a status
ClientRateError(e) == e.kind = "ECMRateLimitError" /\ e.status_code = NoStatus

\* the call of task c ended inside _check_rate_limit
EndedAtRateCheck(c) ==
    pc[c] = "done" /\ (ClientRateError(outcome[c]) \/ outcome[c].kind = "ValueError")

Retryable(r) == r.kind \in {"timeout", "http_error"}

\* the call of task c ended with the classification of an error response
Classified(c) ==
    /\ pc[c] = "done"
    /\ tries[c] # <<>>
    /\ LastOf(tries[c]).kind = "response"
    /\ LastOf(tries[c]).status >= 400

\* the status table of the specification's section 4.3
ExpectedKind(status) ==
    CASE status = 401 -> "ECMAuthenticationError"
      [] status = 403 -> "ECMPermissionError"
      [] status = 404 -> "ECMNotFoundError"
      [] status = 429 -> "ECMRateLimitError"
      [] OTHER -> "ECMClientError"

\* "field error else message else raw text; on parse failure raw text"
ExpectedText(body) ==
    CASE body.parse = "object" /\ body.error # Absent -> body.error
      [] body.parse = "object" /\ body.error = Absent /\ body.message # Absent
           -> body.message
      [] OTHER -> body.text

\* C1: with a rate limit L >= 1, a call checked when fewer than L calls were
\* admitted in the last 60 s passes the rate check (the first L calls of a
\* window), and a call checked when L were admitted (the (L+1)-th) ends with
\* the client-side ECMRateLimitError.
C1_FirstLimitCallsPass ==
    \A c \in Tasks :
        (config.rate_limit >= 1 /\ Checked(c)) =>
            IF prior[c] < config.rate_limit
            THEN ~EndedAtRateCheck(c)
            ELSE /\ prior[c] = config.rate_limit
                 /\ pc[c] = "done"
                 /\ ClientRateError(outcome[c])

\* two calls were admitted in the window and the third was rejected
C1_Witness ==
    \E c \in Tasks :
        /\ config.rate_limit = 2
        /\ prior[c] = 2
        /\ pc[c] = "done"
        /\ ClientRateError(outcome[c])

\* C2 (as stated): with a rate limit of 0 every admission check, the first on
\* an empty window included, rejects with the rate-limit error and admits
\* nothing.
C2_ZeroLimitRejectsWithRateError ==
    \A c \in Tasks :
        (config.rate_limit = 0 /\ Checked(c)) =>
            (pc[c] = "done" /\ ClientRateError(outcome[c]))

\* C3: a refresh_if_needed of the OAuth2 handler exchanges a token iff no token
\* is held or now >= fetch_time + lifetime - 300, the lifetime being the
\* returned expires_in, 3600 when absent, and fetch_time the time the answer
\* was stored; a held token's expiry is fetch_time + lifetime - 300.
C3_RefreshIffExpired ==
    [][\A c \in Tasks :
          /\ (config.auth_type = "oauth2" /\ pc[c] = "auth_refresh"
                /\ pc'[c] # "auth_refresh") =>
               IF token = None \/ now >= fetch_time + lifetime - 300
               THEN pc'[c] = "fetching"
               ELSE pc'[c] = "prepare" /\ UNCHANGED <<token, token_expires_at>>
          /\ (pc[c] = "fetching" /\ pc'[c] = "prepare") =>
               /\ Len(exchanged'[c]) = Len(exchanged[c]) + 1
               /\ token' = LastOf(exchanged'[c]).access_token
               /\ fetch_time' = now
               /\ lifetime' = IF LastOf(exchanged'[c]).expires_in = <<>> THEN 3600
                               ELSE LastOf(exchanged'[c]).expires_in[1]
               /\ token_expires_at' = fetch_time' + lifetime' - 300
          /\ (Len(exchanged'[c]) > Len(exchanged[c])) => pc[c] = "fetching"]_vars

\* a token fetched with a lifetime of 3600 s is reused 3270 s later
C3_Witness ==
    \E c \in Tasks :
        /\ config.auth_type = "oauth2"
        /\ pc[c] = "prepare"
        /\ exchanged[c] = <<>>
        /\ token # None
        /\ lifetime = 3600
        /\ now = fetch_time + 3270

\* C4: with retry_attempts = 3, timeouts on attempts 1 and 2 and a status < 400
\* on attempt 3 end the call with that response, after exactly three sends and
\* exactly the sleeps retry_backoff^0, retry_backoff^1.
C4_TwoTimeoutsThenSuccess ==
    \A c \in Tasks :
        (/\ config.retry_attempts = 3
         /\ Len(tries[c]) = 3
         /\ tries[c][1].kind = "timeout"
         /\ tries[c][2].kind = "timeout"
         /\ tries[c][3].kind = "response"
         /\ tries[c][3].status < 400) =>
            /\ pc[c] = "done"
            /\ outcome[c].kind = "return"
            /\ outcome[c].status_code = tries[c][3].status
            /\ outcome[c].response_body = tries[c][3].body.text
            /\ sleeps[c] = <<1, config.retry_backoff>>

C4_Witness ==
    \E c \in Tasks :
        /\ config.retry_attempts = 3
        /\ config.retry_backoff = 3
        /\ Len(tries[c]) = 3
        /\ tries[c][1].kind = "timeout"
        /\ tries[c][2].kind = "timeout"
        /\ tries[c][3].kind = "response"
        /\ tries[c][3].status = 200
        /\ pc[c] = "done"

\* C5: when each of the retry_attempts (>= 1) tries ends in a timeout or a
\* transport failure, the call raises the error of the last try: ECMTimeoutError
\* after a timeout, ECMClientError "HTTP error" after a transport failure, with
\* no status; it returns no response.
C5_ExhaustionRaisesLastError ==
    \A c \in Tasks :
        (/\ config.retry_attempts >= 1
         /\ Len(tries[c]) = config.retry_attempts
         /\ \A i \in 1..Len(tries[c]) : Retryable(tries[c][i])) =>
            /\ pc[c] \in {"loop", "done"}
            /\ pc[c] = "done" =>
                 /\ outcome[c].status_code = NoStatus
                 /\ IF LastOf(tries[c]).kind = "timeout"
                    THEN /\ outcome[c].kind = "ECMTimeoutError"
                         /\ outcome[c].message[1] = "Request timeout: "
                    ELSE /\ outcome[c].kind = "ECMClientError"
                         /\ outcome[c].message[1] = "HTTP error: "

\* a timeout, then failures, the last one a transport failure
C5_Witness ==
    \E c \in Tasks :
        /\ config.retry_attempts = 3
        /\ Len(tries[c]) = 3
        /\ tries[c][1].kind = "timeout"
        /\ tries[c][2].kind = "timeout"
        /\ tries[c][3].kind = "http_error"
        /\ pc[c] = "done"
        /\ outcome[c].kind = "ECMClientError"

\* C6: a response is always the last send of its call; one with status >= 400
\* ends the call with the error classified from that status, and no sleep or
\* send follows it: every earlier try was a timeout or transport failure, each
\* followed by one sleep.
C6_StatusErrorsAreTerminal ==
    \A c \in Tasks :
        \A i \in 1..Len(tries[c]) :
            tries[c][i].kind = "response" =>
                /\ i = Len(tries[c])
                /\ pc[c] = "done"
                /\ Len(sleeps[c]) = i - 1
                /\ tries[c][i].status >= 400 =>
                     /\ outcome[c].kind = ExpectedKind(tries[c][i].status)
                     /\ outcome[c].status_code = tries[c][i].status

\* a 404 on the second of three allowed attempts ended the call
C6_Witness ==
    \E c \in Tasks :
        /\ config.retry_attempts = 3
        /\ Len(tries[c]) = 2
        /\ tries[c][1].kind = "timeout"
        /\ tries[c][2].kind = "response"
        /\ tries[c][2].status = 404
        /\ pc[c] = "done"
        /\ outcome[c].kind = "ECMNotFoundError"

\* C7: the error classified from a response with status >= 400 has the kind the
\* status table gives for that status, whatever the body, and carries the
\* status code and the raw response text.
C7_KindByStatusAlone ==
    \A c \in Tasks :
        Classified(c) =>
            /\ outcome[c].kind = ExpectedKind(LastOf(tries[c]).status)
            /\ outcome[c].status_code = LastOf(tries[c]).status
            /\ outcome[c].response_body = LastOf(tries[c]).body.text

C7_Witness ==
    \E c \in Tasks :
        /\ Classified(c)
        /\ LastOf(tries[c]).status = 429
        /\ LastOf(tries[c]).body = BodyArray
        /\ outcome[c].kind = "ECMRateLimitError"
        /\ outcome[c].status_code = 429

\* C8 (as stated): the message of a classified error is the body's error field
\* if present, else its message field, else the raw text, and the raw text
\* when the body is not JSON.
C8_MessageIsExtractedText ==
    \A c \in Tasks :
        Classified(c) => outcome[c].message = <<ExpectedText(LastOf(tries[c]).body)>>

\* C8 (amended): the message of a classified error is the prefix of its kind
\* ("Authentication failed: ", "Permission denied: ", "Resource not found: ",
\* "Rate limit exceeded: ", "API error (<status>): ") followed by the body's
\* error field if present, else its message field, else the raw text, and the
\* raw text when the body is not a JSON object.
C8_MessageIsPrefixedText ==
    \A c \in Tasks :
        Classified(c) =>
            LET status == LastOf(tries[c]).status
                prefix ==
                    CASE status = 401 -> <<"Authentication failed: ">>
                      [] status = 403 -> <<"Permission denied: ">>
                      [] status = 404 -> <<"Resource not found: ">>
                      [] status = 429 -> <<"Rate limit exceeded: ">>
                      [] OTHER -> <<"API error (", ToString(status), "): ">>
            IN  outcome[c].message = prefix \o <<ExpectedText(LastOf(tries[c]).body)>>

\* 404 with {"message": "doc missing"}
C8_Witness ==
    \E c \in Tasks :
        /\ Classified(c)
        /\ LastOf(tries[c]).status = 404
        /\ LastOf(tries[c]).body = BodyDocMissing
        /\ outcome[c].kind = "ECMNotFoundError"
        /\ outcome[c].message = <<"Resource not found: ", "doc missing">>

\* C9: with calls made one after another, every close() returns without
\* raising and leaves the client holding no transport, whether or not a
\* transport was open; a request that comes after it sends on an open transport
\* which the client holds, and never fails for a closed transport.
C9_CloseIdempotent ==
    \A c \in Tasks :
        /\ pc[c] = "closed" =>
             /\ outcome[c] = Returned(NoStatus, None)
             /\ client = NoClient
        /\ pc[c] \in {"loop", "sending", "sleeping"} =>
             /\ client # NoClient
             /\ client_ref[c] = client
             /\ transports[client] = "open"
        /\ pc[c] = "done" => outcome[c].kind # "RuntimeError"

\* after two close() calls in a row, the second finding no transport, a
\* request is about to send on a second transport
C9_Witness ==
    \E c \in Tasks :
        /\ closes >= 2
        /\ pc[c] = "loop"
        /\ Len(transports) = 2
        /\ transports[1] = "closed"
        /\ client_ref[c] = 2
        /\ transports[2] = "open"

\* C10: a call sends only after its rate check admitted it and after its auth
\* refresh succeeded; a rate-limit rejection ends it with no token exchange, no
\* send and no sleep, and a failed token exchange ends it with
\* ECMAuthenticationError, no send and no sleep.
C10_NoSendUnlessAdmittedAndAuthorized ==
    \A c \in Tasks :
        /\ (pc[c] \in {"sending", "sleeping"} \/ tries[c] # <<>>) =>
             /\ prior[c] < config.rate_limit
             /\ exchanged[c] # <<>> =>
                  /\ LastOf(exchanged[c]).ok
                  /\ LastOf(exchanged[c]).access_token # Absent
             /\ config.auth_type = "oauth2" => token \in Tokens
        /\ EndedAtRateCheck(c) =>
             /\ exchanged[c] = <<>>
             /\ tries[c] = <<>>
             /\ sleeps[c] = <<>>
        /\ (exchanged[c] # <<>>
              /\ (~LastOf(exchanged[c]).ok \/ LastOf(exchanged[c]).access_token = Absent)) =>
             /\ pc[c] = "done"
             /\ outcome[c].kind = "ECMAuthenticationError"
             /\ outcome[c].status_code = NoStatus
             /\ tries[c] = <<>>
             /\ sleeps[c] = <<>>

\* the token endpoint answered without an access_token and the call ended
C10_Witness ==
    \E c \in Tasks :
        /\ exchanged[c] # <<>>
        /\ LastOf(exchanged[c]).ok
        /\ LastOf(exchanged[c]).access_token = Absent
        /\ pc[c] = "done"
        /\ outcome[c].kind = "ECMAuthenticationError"

\* the call of task c holds the headers it sends with
Prepared(c) == pc[c] \in {"loop", "sending", "sleeping"}

\* C11 (as stated): with basic auth, get_headers() gives the empty dict, every
\* transport the client creates has the configured username and password as
\* its authenticator, and so every send carries the basic credentials.
C11_BasicCredentialsOnTransport ==
    config.auth_type = "basic" =>
        /\ \A c \in Tasks : Prepared(c) => auth_headers[c] = NoHeaders
        /\ \A i \in 1..Len(transports) : transport_auth[i] = GetAuth
        /\ \A c \in Tasks : \A i \in 1..Len(sent[c]) : sent[c][i].auth = GetAuth

\* C12: with the API-key handler, refresh_if_needed() returns without raising
\* and changes nothing of the handler, and every get_headers() returns the one
\* entry {header_name: key}, however the two calls are ordered and repeated.
C12_ApiKeyHeadersAreFixed ==
    [][\A c \in Tasks :
          (config.auth_type = "api_key" /\ pc'[c] # pc[c]) =>
              /\ UNCHANGED <<config, token, token_expires_at>>
              /\ outcome'[c] = Returned(NoStatus, None)
              /\ pc'[c] = "refreshed" => exchanged'[c] = <<>>
              /\ pc'[c] = "got_headers" =>
                   /\ DOMAIN auth_headers'[c] = {"X-API-Key"}
                   /\ auth_headers'[c]["X-API-Key"] = <<ApiKey>>]_vars

\* a get_headers() that returned the entry after time has passed
C12_Witness ==
    \E c \in Tasks :
        /\ config.auth_type = "api_key"
        /\ pc[c] = "got_headers"
        /\ now > 0
        /\ auth_headers[c] = ("X-API-Key" :> <<ApiKey>>)
        /\ token = None

\* C13: every send of a call carries the caller's headers merged with the auth
\* handler's headers: a name the handler gives has the handler's value, also
\* when the caller gave it too, every other name of the caller has the caller's
\* value, and there is no other name.
C13_AuthHeadersOverrideCaller ==
    \A c \in Tasks :
        \A i \in 1..Len(sent[c]) :
            LET h == sent[c][i].headers
                expected == GetHeaders(config.auth_type, granted)
            IN  /\ DOMAIN h = DOMAIN kwargs_headers[c] \cup DOMAIN expected
                /\ \A n \in DOMAIN h :
                       h[n] = IF n \in DOMAIN expected THEN expected[n]
                              ELSE kwargs_headers[c][n]

\* the caller passed Authorization and Accept, and the second send carries the
\* bearer token with the caller's Accept
C13_Witness ==
    \E c \in Tasks :
        /\ config.auth_type = "oauth2"
        /\ kwargs_headers[c] =
             ("Accept" :> <<"text/plain">>) @@ ("Authorization" :> <<"caller">>)
        /\ Len(sent[c]) = 2
        /\ sent[c][2].headers["Authorization"] = <<"Bearer ", token>>
        /\ sent[c][2].headers["Accept"] = <<"text/plain">>

\* the call of task c came through delete and _request returned a response
DeleteReturned(c) ==
    /\ pc[c] = "returned"
    /\ method[c] = "DELETE"
    /\ outcome[c].kind = "return"

\* C14 (as stated): a delete whose response has status 204 returns a successful
\* empty result without parsing the body; a delete with any other status < 400
\* returns the body parsed as JSON.
C14_DeleteNoContentIsEmpty ==
    \A c \in Tasks :
        DeleteReturned(c) =>
            /\ returned[c].kind = "return"
            /\ IF LastOf(tries[c]).status = 204
               THEN returned[c].value = NoValue
               ELSE /\ returned[c].value.json = LastOf(tries[c]).body.parse
                    /\ returned[c].value.error = LastOf(tries[c]).body.error
                    /\ returned[c].value.message = LastOf(tries[c]).body.message

\* C14 (amended): a delete whose response has status 204 returns the fixed
\* dict {"status": "deleted"} whatever the body, parsable or not; a delete with
\* any other status < 400 returns the body parsed as JSON, and raises the JSON
\* decoding error when the body does not parse.
C14_DeleteNoContentIsDeleted ==
    \A c \in Tasks :
        DeleteReturned(c) =>
            LET r == LastOf(tries[c])
            IN  IF r.status = 204
                THEN /\ returned[c].kind = "return"
                     /\ returned[c].value.json = "object"
                     /\ returned[c].value.status = "deleted"
                     /\ returned[c].value.error = Absent
                     /\ returned[c].value.message = Absent
                ELSE IF r.body.parse = "invalid"
                     THEN returned[c].kind = "JSONDecodeError"
                     ELSE /\ returned[c].kind = "return"
                          /\ returned[c].value.json = r.body.parse
                          /\ returned[c].value.error = r.body.error
                          /\ returned[c].value.message = r.body.message
                          /\ returned[c].value.status = Absent

\* a 204 whose body is not JSON was delivered as {"status": "deleted"}
C14_Witness ==
    \E c \in Tasks :
        /\ DeleteReturned(c)
        /\ LastOf(tries[c]).status = 204
        /\ LastOf(tries[c]).body = BodyEmpty
        /\ returned[c].kind = "return"
        /\ returned[c].value.status = "deleted"

\* C15 (as stated): construction raises a configuration error and yields no
\* handler whenever auth_type is not one of "oauth2", "api_key", "basic" or the
\* block of the selected type is missing; otherwise it succeeds with the
\* handler of that type, whatever other blocks are present.
C15_ExactAuthTypeOrError ==
    construction.built =>
        LET type == construction.auth_type
            block == CASE type = "oauth2" -> "oauth"
                       [] type = "api_key" -> "api_key"
                       [] type = "basic" -> "basic"
                       [] OTHER -> None
        IN  IF type \notin {"oauth2", "api_key", "basic"} \/ block \notin construction.blocks
            THEN /\ construction.raised.kind = "ValueError"
                 /\ construction.handler = None
            ELSE /\ construction.raised = NoError
                 /\ construction.handler =
                      CASE type = "oauth2" -> "OAuth2Handler"
                        [] type = "api_key" -> "APIKeyHandler"
                        [] type = "basic" -> "BasicAuthHandler"

\* C15 (amended): the same, with auth_type compared without regard to case:
\* "OAuth2" selects the OAuth2 handler and "BASIC" the basic handler, and the
\* error raised is ValueError.
C15_AuthTypeIgnoringCaseOrError ==
    construction.built =>
        LET type == construction.auth_type
            block == CASE type \in {"oauth2", "OAuth2"} -> "oauth"
                       [] type = "api_key" -> "api_key"
                       [] type \in {"basic", "BASIC"} -> "basic"
                       [] OTHER -> None
        IN  IF block = None \/ block \notin construction.blocks
            THEN /\ construction.raised.kind = "ValueError"
                 /\ construction.raised.status_code = NoStatus
                 /\ construction.handler = None
            ELSE /\ construction.raised = NoError
                 /\ construction.handler =
                      CASE block = "oauth" -> "OAuth2Handler"
                        [] block = "api_key" -> "APIKeyHandler"
                        [] block = "basic" -> "BasicAuthHandler"

\* "BASIC" with all three blocks present gave the basic handler
C15_Witness ==
    /\ construction.built
    /\ construction.auth_type = "BASIC"
    /\ construction.blocks = {"oauth", "api_key", "basic"}
    /\ construction.handler = "BasicAuthHandler"
    /\ construction.raised = NoError

\* the call of task c ended by raising
Raised(c) == pc[c] = "done" /\ outcome[c].kind # "return"

\* the call of task c ended with the error of a transport failure on its last try
TransportFailed(c) ==
    /\ Raised(c)
    /\ tries[c] # <<>>
    /\ LastOf(tries[c]).kind = "http_error"

\* the call of task c ended with the error of a timeout on its last try
TimedOut(c) ==
    /\ Raised(c)
    /\ tries[c] # <<>>
    /\ LastOf(tries[c]).kind = "timeout"

\* the error a call raised has a status code iff it was classified from a
\* response; the client-side rate-limit rejection and the timeout error have
\* none, and a 429 response gives the rate-limit error with status 429
StatusIffClassified(c) ==
    /\ Raised(c) => (outcome[c].status_code # NoStatus <=> Classified(c))
    /\ (Raised(c) /\ tries[c] = <<>> /\ outcome[c].kind = "ECMRateLimitError") =>
         outcome[c].status_code = NoStatus
    /\ TimedOut(c) =>
         (outcome[c].kind = "ECMTimeoutError" /\ outcome[c].status_code = NoStatus)
    /\ TransportFailed(c) => outcome[c].status_code = NoStatus
    /\ (Classified(c) /\ LastOf(tries[c]).status = 429) =>
         (outcome[c].kind = "ECMRateLimitError" /\ outcome[c].status_code = 429)

\* C16 (as stated): an error has a status code iff it was classified from a
\* response, and a transport failure that is not a timeout raises an error of
\* a kind of its own, which is not the kind of the generic API error.
C16_TransportErrorIsItsOwnKind ==
    \A c \in Tasks :
        /\ StatusIffClassified(c)
        /\ TransportFailed(c) => outcome[c].kind # StatusKind(500)

\* C16 (amended): an error has a status code iff it was classified from a
\* response, and a transport failure that is not a timeout raises
\* ECMClientError, the kind of the generic API error, told from it by having no
\* status code and by its message "HTTP error: ...".
C16_TransportErrorIsGenericKind ==
    \A c \in Tasks :
        /\ StatusIffClassified(c)
        /\ TransportFailed(c) =>
             /\ outcome[c].kind = "ECMClientError"
             /\ outcome[c].status_code = NoStatus
             /\ outcome[c].message[1] = "HTTP error: "
        /\ (Classified(c) /\ LastOf(tries[c]).status = 500) =>
             /\ outcome[c].kind = "ECMClientError"
             /\ outcome[c].status_code = 500
             /\ outcome[c].message[1] = "API error ("

\* a timeout and then a transport failure on the last of three attempts
C16_Witness ==
    \E c \in Tasks :
        /\ config.retry_attempts = 3
        /\ Len(tries[c]) = 3
        /\ tries[c][2].kind = "timeout"
        /\ TransportFailed(c)
        /\ outcome[c].kind = "ECMClientError"
        /\ outcome[c].status_code = NoStatus

\* C17 (as stated): get_headers() of the OAuth2 handler raises ECMAuthenticationError in
\* every state in which no token exchange has succeeded yet, also after failed
\* exchanges, and otherwise returns exactly
\* {"Authorization": "Bearer <token>"} with the access token of the most
\* recent successful exchange.
C17_BearerTokenOfLastExchange ==
    \A c \in Tasks :
        (config.auth_type = "oauth2" /\ pc[c] = "got_headers") =>
            IF granted = None
            THEN /\ outcome[c].kind = "ECMAuthenticationError"
                 /\ outcome[c].status_code = NoStatus
            ELSE /\ outcome[c] = Returned(NoStatus, None)
                 /\ DOMAIN auth_headers[c] = {"Authorization"}
                 /\ auth_headers[c]["Authorization"] = <<"Bearer ", granted>>

\* C18 (as stated): with concurrent calls, refreshes are serialized: no two
\* tasks are inside a token exchange at once and a task is inside one only
\* while the held token is absent or expired, so one expiry gets one exchange;
\* and a held token always has the expiry computed from the exchange that gave
\* it, never the expiry of another exchange.
C18_RefreshSerializedAndWhole ==
    /\ \A c \in Tasks :
          pc[c] = "fetching" =>
              /\ token = None \/ now >= token_expires_at
              /\ \A d \in Tasks \ {c} : pc[d] # "fetching"
    /\ token # None =>
          /\ token = granted
          /\ token_expires_at = fetch_time + lifetime - 300

\* C19: under every interleaving of two tasks, the window never holds more
\* than rate_limit timestamps, and never more than rate_limit calls were
\* admitted within the last 60 s.
C19_WindowNeverExceedsLimit ==
    /\ Len(request_times) <= config.rate_limit
    /\ Len(admitted) <= config.rate_limit
    /\ \A c \in Tasks :
          pc[c] \in {"auth_refresh", "fetching", "prepare", "loop", "sending", "sleeping"} =>
              prior[c] < config.rate_limit

\* with a limit of 1, one task awaits its send while the other was rejected
C19_Witness ==
    \E c, d \in Tasks :
        /\ c # d
        /\ config.rate_limit = 1
        /\ pc[c] = "sending"
        /\ pc[d] = "done"
        /\ ClientRateError(outcome[d])
        /\ tries[d] = <<>>
        /\ Len(request_times) = 1

\* task c's _check_rate_limit runs in this step
CheckStep(c) == pc[c] = "rate_check" /\ pc'[c] # "rate_check"

RetryPolicyKept(c) ==
    /\ Len(sent[c]) <= config.retry_attempts
    /\ Len(sent[c]) = Len(tries[c]) + (IF pc[c] = "sending" THEN 1 ELSE 0)
    /\ Len(sleeps[c]) <= Len(tries[c])
    /\ pc[c] = "sleeping" => Len(sleeps[c]) = Len(tries[c])
    /\ pc[c] = "done" /\ tries[c] # <<>> => Len(sleeps[c]) = Len(tries[c]) - 1
    /\ \A i \in 1..Len(sleeps[c]) :
           /\ tries[c][i].kind \in {"timeout", "http_error"}
           /\ i < config.retry_attempts
           /\ sleeps[c][i] = Pow(config.retry_backoff, i - 1)
    /\ \A i \in 1..Len(tries[c]) :
           tries[c][i].kind = "response" => i = Len(tries[c]) /\ pc[c] = "done"

\* C21: a call issues at most retry_attempts sends, one after another; it
\* sleeps only between two attempts and only after a timeout or a transport
\* failure, for retry_backoff ^ i seconds after the attempt with index i, and
\* never after the final attempt or after a response, successful or not
C21_RetriesSequentialWithBackoff ==
    \A c \in Callers : RetryPolicyKept(c)

\* a call of three attempts that all failed, one of them at the transport,
\* has slept for 1 and then 3 seconds and not after its last attempt
C21_Witness ==
    \E c \in Callers :
        /\ pc[c] = "done"
        /\ config.retry_attempts = 3
        /\ config.retry_backoff = 3
        /\ Len(tries[c]) = 3
        /\ tries[c][2].kind = "http_error"
        /\ tries[c][3].kind = "timeout"
        /\ sleeps[c] = <<1, 3>>
        /\ Len(sent[c]) = 3

\* -------------------------------------------------------------------- C22
\* an API-key client with one attempt per call
InitLifecycle ==
    /\ Init
    /\ config.auth_type = "api_key"
    /\ config.rate_limit = 2
    /\ config.retry_attempts = 1
    /\ config.retry_backoff = 2

\* two tasks call _request and close() on the one client; a task gives up the
\* event loop at its awaited send and at its awaited aclose()
NextLifecycle ==
    \/ \E c \in Tasks : StartRequest(c, NoHeaders)
    \/ \E c \in Tasks : RateCheck(c)
    \/ \E c \in Tasks : AuthRefresh(c)
    \/ \E c \in Tasks : Prepare(c)
    \/ \E c \in Tasks : Loop(c)
    \/ \E c \in Tasks, r \in ConcurrentSendResults : Receive(c, r)
    \/ \E c \in Tasks : StartClose(c)
    \/ \E c \in Tasks : FinishClose(c)

SpecLifecycle == InitLifecycle /\ [][NextLifecycle]_vars

\* the transports that have not been released
OpenTransports == {i \in 1..Len(transports) : transports[i] = "open"}

\* C22: at any time the client holds at most one HTTP transport, reused until
\* close(), and every transport it created is released by close() and never
\* left open once close() has returned: at most one transport is open, and
\* an open transport is the one the client holds, which the next close()
\* will release
C22_OneTransportReleasedOnce ==
    /\ Cardinality(OpenTransports) <= 1
    /\ \A i \in OpenTransports : client = i

\* -------------------------------------------------------------------- C23
\* calls made one after another on a client that is never closed
NextLive ==
    \/ \E c \in Callers : StartRequest(c, NoHeaders)
    \/ \E c \in Callers : RateCheck(c)
    \/ \E c \in Callers : AuthRefresh(c)
    \/ \E c \in Callers, r \in ExchangeResults : FetchToken(c, r)
    \/ \E c \in Callers : Prepare(c)
    \/ \E c \in Callers : Loop(c)
    \/ \E c \in Callers, r \in SendResults : Receive(c, r)
    \/ \E c \in Callers : Wake(c)

\* the task that holds the event loop runs to its next await, the blocking
\* token fetch returns or raises, and every awaited send and sleep ends
Fairness ==
    \A c \in Callers :
        /\ WF_vars(RateCheck(c))
        /\ WF_vars(AuthRefresh(c))
        /\ WF_vars(\E r \in ExchangeResults : FetchToken(c, r))
        /\ WF_vars(Prepare(c))
        /\ WF_vars(Loop(c))
        /\ WF_vars(\E r \in SendResults : Receive(c, r))
        /\ WF_vars(Wake(c))

SpecLive == Init /\ [][NextLive]_vars /\ Fairness

\* the exception classes of src/client/exceptions.py
ClassifiedKinds ==
    {"ECMClientError", "ECMAuthenticationError", "ECMNotFoundError",
     "ECMPermissionError", "ECMRateLimitError", "ECMValidationError",
     "ECMTimeoutError"}

\* the call ended in a response with status < 400 or in one classified error
OneOutcome(c) ==
    \/ outcome[c].kind = "return" /\ outcome[c].status_code < 400
    \/ outcome[c].kind \in ClassifiedKinds

\* the stage of _request a task is in: 0 outside a call, 1 the rate check,
\* 2 the auth refresh, 3 the sends and the sleeps between them
Stage(p) ==
    CASE p = "rate_check" -> 1
      [] p \in {"auth_refresh", "fetching"} -> 2
      [] p \in {"prepare", "loop", "sending", "sleeping"} -> 3
      [] OTHER -> 0

\* a step of the call stays in its stage, enters the next one or ends the call
StagesInOrder(c) ==
    Stage(pc'[c]) \in {Stage(pc[c]), Stage(pc[c]) + 1, 0}

\* C23: every call goes through the rate check, the auth refresh and the
\* sends in this order and, when every send and every sleep ends, it ends
\* itself, in a response with status < 400 or in one classified error, never
\* in no outcome
C23_EveryCallEndsInOneOutcome ==
    /\ [][\A c \in Callers : StagesInOrder(c)]_vars
    /\ [](\A c \in Callers : pc[c] = "done" => OneOutcome(c))
    /\ \A c \in Callers : (pc[c] = "rate_check") ~> (pc[c] = "done")

\* -------------------------------------------------------------------- C24
\* the caller abandons the call while it is suspended in its awaited send or
\* sleep: CancelledError is raised there, no except clause of _request
\* catches it and the call ends; a variant that gave the call's rate-window
\* slot back is kept for comparison
Cancel_releasing(c) ==
    /\ running = 0
    /\ pc[c] \in {"sending", "sleeping"}
    /\ Finish(c, Error("CancelledError", <<>>, NoStatus, None))
    /\ request_times' = SubSeq(request_times, 1, Len(request_times) - 1)
    /\ UNCHANGED <<config, clock, auth, client, transports, transport_auth,
                   admitted, attempt, last_exception, client_ref, tries,
                   sleeps, prior, exchanged, closes, wire, outer>>
Cancel(c) ==
    /\ running = 0
    /\ pc[c] \in {"sending", "sleeping"}
    /\ Finish(c, Error("CancelledError", <<>>, NoStatus, None))
    /\ UNCHANGED <<config, clock, shared, attempt, last_exception, client_ref,
                   tries, sleeps, prior, exchanged, closes, wire, outer>>

\* an API-key client with the default retries
InitCancel ==
    /\ Init
    /\ config.auth_type = "api_key"
    /\ config.rate_limit = 2
    /\ config.retry_attempts = 3
    /\ config.retry_backoff = 2

\* two tasks call _request on the one client and may abandon their calls
NextCancel ==
    \/ \E c \in Tasks : StartRequest(c, NoHeaders)
    \/ \E c \in Tasks : RateCheck(c)
    \/ \E c \in Tasks : AuthRefresh(c)
    \/ \E c \in Tasks : Prepare(c)
    \/ \E c \in Tasks : Loop(c)
    \/ \E c \in Tasks, r \in ConcurrentSendResults : Receive(c, r)
    \/ \E c \in Tasks : Wake(c)
    \/ \E c \in Tasks : Cancel(c)
    \/ Tick(30)

SpecCancel == InitCancel /\ [][NextCancel]_vars

\* task c takes a step of its retry loop: a send or a sleep of it ends or is
\* abandoned, or the loop goes on to the next attempt or to the final raise
RetryStep(c) ==
    /\ pc[c] \in {"loop", "sending", "sleeping"}
    /\ pc'[c] # pc[c]

\* "range(self.retry_attempts)": the attempts a call in its loop has left
Remaining(c) == config.retry_attempts - attempt[c]

\* C24: retry state is per call: a call's failed attempt, its exhaustion or
\* its abandonment at a send or a sleep leaves the attempts remaining to
\* every other call and their last errors as they were, and leaves every
\* timestamp recorded in the rate window in place
C24_RetryStateIsPerCall ==
    [][\A c \in Tasks :
           RetryStep(c) =>
               /\ request_times' = request_times
               /\ \A d \in Tasks \ {c} :
                      /\ Remaining(d)' = Remaining(d)
                      /\ last_exception'[d] = last_exception[d]
                      /\ pc'[d] = pc[d]]_vars

\* one call was abandoned while the other, admitted as well, is in its
\* second attempt after a timeout
C24_Witness ==
    \E c, d \in Tasks :
        /\ c # d
        /\ pc[c] = "done"
        /\ outcome[c].kind = "CancelledError"
        /\ pc[d] = "sending"
        /\ attempt[d] = 1
        /\ last_exception[d].kind = "ECMTimeoutError"
        /\ Len(request_times) = 2

\* -------------------------------------------------------------------- C25
\* a client with any rate limit and any number of attempts
InitWindow ==
    /\ Init
    /\ config.retry_backoff = 2
    /\ config.auth_type \in {"oauth2", "api_key"}

\* calls made one after another on a client that is never closed, with time
\* passing
NextWindow ==
    \/ \E c \in Callers : StartRequest(c, NoHeaders)
    \/ \E c \in Callers : RateCheck(c)
    \/ \E c \in Callers : AuthRefresh(c)
    \/ \E c \in Callers, r \in ExchangeResults : FetchToken(c, r)
    \/ \E c \in Callers : Prepare(c)
    \/ \E c \in Callers : Loop(c)
    \/ \E c \in Callers, r \in SendResults : Receive(c, r)
    \/ \E c \in Callers : Wake(c)
    \/ \E d \in Steps : Tick(d)

SpecWindow == InitWindow /\ [][NextWindow]_vars

\* the timestamps of _request_times that are within the window at the time
WindowCount(times, current_time) ==
    Cardinality({i \in 1..Len(times) : InWindow(times[i], current_time)})

\* C25: a call adds exactly one timestamp to the rate window when its rate
\* check admits it and none when the check rejects it; no other step of a
\* call, retried attempts and failures of the auth refresh, of a status
\* >= 400 and of exhausted retries included, adds, removes or alters a
\* timestamp, and no call past its rate check ends with the client-side
\* rate-limit error
C25_OneTimestampPerAdmittedCall ==
    [][\A c \in Callers :
           /\ pc[c] = "rate_check" /\ pc'[c] = "auth_refresh" =>
                  /\ WindowCount(request_times', now) =
                         WindowCount(request_times, now) + 1
                  /\ LastOf(request_times') = now
           /\ pc[c] = "rate_check" /\ pc'[c] = "done" =>
                  request_times' = request_times
           /\ pc[c] # "rate_check" =>
                  /\ request_times' = request_times
                  /\ pc'[c] = "done" /\ pc[c] # "done" => ~ClientRateError(outcome'[c])]_vars

\* a call admitted at 60 s under a limit of 1 used its three attempts up:
\* its timestamp is still the one recorded
C25_Witness ==
    \E c \in Callers :
        /\ config.rate_limit = 1
        /\ pc[c] = "done"
        /\ Len(tries[c]) = 3
        /\ outcome[c].kind = "ECMTimeoutError"
        /\ now = 60
        /\ request_times = <<60>>

\* -------------------------------------------------------------------- C26
\* refresh_if_needed of task c has just raised ECMAuthenticationError
RefreshFailed(c) ==
    /\ pc'[c] = "refreshed"
    /\ outcome'[c].kind = "ECMAuthenticationError"

\* C26: a failed token exchange leaves the token and the expiry the OAuth2
\* handler holds exactly as they were before it, no token when it held none
\* and the same expired token when it held one, so that the next
\* refresh_if_needed attempts the exchange again
C26_FailedExchangeKeepsToken ==
    [][\A c \in Callers :
           RefreshFailed(c) =>
               /\ token' = token
               /\ token_expires_at' = token_expires_at
               /\ NeedsRefresh(token', token_expires_at', now')]_vars

\* -------------------------------------------------------------------- C27
\* the call of task c is past the rate check and the auth refresh: it has
\* run "client = await self._get_client()"
ReachedLoop(c) == client_ref[c] # NoClient

\* C27: with retry_attempts = 0 a call that passed the rate check and the
\* auth refresh sends no HTTP request and ends with the generic
\* ECMClientError "Request failed after all retries" without a status code,
\* and its timestamp is in the rate window, one more than were there when it
\* was checked
C27_ZeroAttemptsSendsNothing ==
    \A c \in Callers :
        (config.retry_attempts = 0 /\ ReachedLoop(c)) =>
            /\ pc[c] \in {"loop", "done"}
            /\ sent[c] = <<>>
            /\ tries[c] = <<>>
            /\ sleeps[c] = <<>>
            /\ request_times # <<>>
            /\ WindowCount(request_times, LastOf(request_times)) = prior[c] + 1
            /\ pc[c] = "done" =>
                   outcome[c] = Error("ECMClientError",
                                      <<"Request failed after all retries">>,
                                      NoStatus, None)

\* a client with no attempts made its first call: the call was admitted and
\* recorded, a transport was created, nothing was sent and the generic error
\* was raised
C27_Witness ==
    \E c \in Callers :
        /\ config.retry_attempts = 0
        /\ pc[c] = "done"
        /\ ReachedLoop(c)
        /\ outcome[c].kind = "ECMClientError"
        /\ outcome[c].message = <<"Request failed after all retries">>
        /\ outcome[c].status_code = NoStatus
        /\ sent[c] = <<>>
        /\ request_times = <<0>>
        /\ transports = <<"open">>

====
